---- MODULE Spec2Model ----
(***************************************************************************)
(* Model of the delimiter-aware file splitter (split_file_delimiter.py),   *)
(* its boundary classifier (also in debug_split.py) and the greedy word    *)
(* splitter of split_file_simple.py.  One behaviour is one run of one of   *)
(* the three scripts on one input path: a file, or for split_file_simple.py *)
(* also a directory of files.                                              *)
(*                                                                         *)
(* A line of text is abstracted to what the code looks at:                 *)
(*   has   - the delimiter strings that are substrings of the line         *)
(*           (`d in line`),                                                *)
(*   words - len(line.split()); line.strip() == '' exactly when this is 0, *)
(*           since strip() and split() use the same notion of whitespace,  *)
(*   bytes - len(line.encode('utf-8')), at least 1 for a line of a file.   *)
(* A whitespace-only line can still contain a delimiter (a delimiter such  *)
(* as " " or ""), so blank lines with a non-empty `has` are inputs too.    *)
(* Python indices are kept 0-based; sequences are indexed with idx + 1.    *)
(***************************************************************************)
EXTENDS Integers, Sequences, FiniteSets, TLC

\* ---------------------------------------------------------------- bounds
MaxLen == 3
MaxWords == 2
MaxBudget == 2
MaxPlainLen == 4
MaxCount == 3
MaxBytes == 2
MaxFiles == 2

\* the delimiter strings that occur in the modelled inputs
DelimiterStrings == {"d1"}

\* values tried for the configured SPLIT_VALUE
ConfigValues == {0, 2}

\* values tried for the configured SPLIT_METHOD ("" stands for any
\* string main does not recognise)
ConfigMethods == {"words", "delimiter", ""}

\* the modes that only count lines or bytes
SizeMethods == {"lines", "bytes", "parts"}

\* the scripts of the repository that are modelled
Scripts == {"split_file_delimiter", "split_file_simple", "debug_split"}

\* inputs of the modes that look at words and delimiters; these modes never
\* read the byte size, which is kept at one unit
Line == [has : SUBSET DelimiterStrings, words : 0..MaxWords, bytes : {1}]

\* inputs of the modes that only count lines or bytes: one kind of text,
\* every byte size
PlainLine == [has : {{}}, words : {1}, bytes : 1..MaxBytes]

\* the files of an input directory: a readable file with its lines, or a
\* file whose bytes are not valid UTF-8, so that reading it raises
\* UnicodeDecodeError
DirLine == [has : {{}}, words : {1}, bytes : {1}]

\* the lines possible when no delimiter is made of whitespace only: a blank
\* line then contains no delimiter.  The delimiters of debug_split.py are
\* the fixed strings "-- Chat:", "=== Project:", "### Account:".
VisibleDelimiterLine == {l \in Line : l.words = 0 => l.has = {}}

RECURSIVE SeqsUpTo(_, _)
SeqsUpTo(S, n) ==
    IF n = 0 THEN {<<>>}
    ELSE LET shorter == SeqsUpTo(S, n - 1)
         IN  shorter \cup {Append(s, x) : s \in {t \in shorter : Len(t) = n - 1}, x \in S}

\* argparse result: at most one option of the mutually exclusive group is
\* present; an absent option is None (opt = "none")
NoArgs == [opt |-> "none", n |-> 0, d |-> {}]

Args ==
    {NoArgs}
    \cup {[opt |-> "words", n |-> k, d |-> {}] : k \in -1..MaxBudget}
    \cup {[opt |-> o, n |-> k, d |-> {}] : o \in SizeMethods, k \in (-1..MaxCount) \ {0}}
    \cup {[opt |-> "delimiter", n |-> 0, d |-> D] : D \in (SUBSET DelimiterStrings) \ {{}}}

\* a Python value that is either an int or a list of strings
IntValue(k) == [int |-> TRUE, n |-> k, d |-> {}]
ListValue(D) == [int |-> FALSE, n |-> 0, d |-> D]
Truthy(v) == IF v.int THEN v.n # 0 ELSE v.d # {}

DirFile ==
    {[lines |-> s, readable |-> TRUE] : s \in SeqsUpTo(DirLine, MaxLen)}
    \cup {[lines |-> <<>>, readable |-> FALSE]}

VARIABLES
    script,           \* which script runs
    input_kind,       \* "file" or "dir": what the input path names
    pending,          \* directory input: the files not yet visited
    readable,         \* whether the current file decodes as UTF-8
    files_found,      \* process_path's flag of the directory loop
    all_lines,        \* the content of the current file, f.readlines()
    args,             \* parsed command line
    SPLIT_METHOD,     \* module configuration
    SPLIT_VALUE,
    DELIMITER,
    method,           \* main's local: the split function chosen
    value,            \* main's local: its argument
    pc,               \* position of the program
    file_count,       \* locals of the running split function
    current_chunk,
    current_words,
    i,
    delimiter_indices,
    split_points,
    lines_buffer,     \* `lines` of split_file_by_lines / split_file_by_bytes
    current_bytes,
    written,          \* the write_part calls so far: <<[part_number, lines]>>
    stdout            \* what has been printed

vars == <<script, input_kind, pending, readable, files_found, all_lines, args, SPLIT_METHOD,
          SPLIT_VALUE, DELIMITER, method, value, pc, file_count, current_chunk,
          current_words, i, delimiter_indices, split_points, lines_buffer,
          current_bytes, written, stdout>>

config == <<script, all_lines, args, SPLIT_METHOD, SPLIT_VALUE, DELIMITER>>

\* the directory listing and the current file's readability
dir_state == <<input_kind, pending, readable, files_found>>

\* the locals of split_file_by_lines and split_file_by_bytes
size_locals == <<lines_buffer, current_bytes>>

\* ------------------------------------------------------- pure helpers

\* any(d in line for d in delimiters)
LineContainsDelimiter(line, delimiters) == line.has \cap delimiters # {}

\* line.strip() == ''
IsBlank(line) == line.words = 0

\* prev_idx = idx - 1; while prev_idx >= 0 and blank: prev_idx -= 1
RECURSIVE SkipBlankBack(_, _)
SkipBlankBack(lines, prev_idx) ==
    IF prev_idx >= 0 /\ IsBlank(lines[prev_idx + 1])
    THEN SkipBlankBack(lines, prev_idx - 1)
    ELSE prev_idx

\* Step 1 of split_file_by_delimiter: indices of the delimiter lines
DelimiterIndices(lines, delimiters) ==
    {idx \in 0..(Len(lines) - 1) : LineContainsDelimiter(lines[idx + 1], delimiters)}

\* faulty variant of IsRealSplitPoint: looks at the line just before idx
\* without skipping the blank lines
IsRealSplitPointNoSkip(lines, delimiters, idx) ==
    IF idx = 0 THEN TRUE
    ELSE ~LineContainsDelimiter(lines[idx], delimiters)

\* faulty variant of IsRealSplitPoint: a delimiter line is a split point
\* only when a non-blank line without delimiter precedes it
IsRealSplitPointAfterText(lines, delimiters, idx) ==
    IF idx = 0 THEN FALSE
    ELSE LET prev_idx == SkipBlankBack(lines, idx - 1)
         IN  IF prev_idx < 0 THEN FALSE
             ELSE ~LineContainsDelimiter(lines[prev_idx + 1], delimiters)

\* Step 2: is the delimiter index idx appended to split_points?
IsRealSplitPoint(lines, delimiters, idx) ==
    IF idx = 0 THEN TRUE
    ELSE LET prev_idx == SkipBlankBack(lines, idx - 1)
         IN  IF prev_idx < 0 THEN TRUE
             ELSE ~LineContainsDelimiter(lines[prev_idx + 1], delimiters)

\* the ascending list of the members of a set of integers
RECURSIVE SortedSeq(_)
SortedSeq(S) ==
    IF S = {} THEN <<>>
    ELSE LET m == CHOOSE x \in S : \A y \in S : x <= y
         IN  <<m>> \o SortedSeq(S \ {m})

\* Step 2 as a whole: for idx in delimiter_indices: ... split_points.append(idx)
SplitPoints(lines, delimiters, indices) ==
    SortedSeq({idx \in indices : IsRealSplitPoint(lines, delimiters, idx)})

\* faulty variant of Slice: lines[start:end-1]
SliceDropsLast(lines, start, end) ==
    IF start >= Len(lines) \/ end - 1 <= start THEN <<>>
    ELSE SubSeq(lines, start + 1, IF end - 1 > Len(lines) THEN Len(lines) ELSE end - 1)

\* lines[start:end]
Slice(lines, start, end) ==
    IF start >= Len(lines) \/ end <= start THEN <<>>
    ELSE SubSeq(lines, start + 1, IF end > Len(lines) THEN Len(lines) ELSE end)

\* faulty variant of IsEmptyFile: the test for an empty file is missing
IsEmptyFileNever(lines) == FALSE

\* faulty variant of NoDelimitersFound: the early return is missing
NoDelimitersFoundNever(indices) == FALSE

\* `if not all_lines` after f.readlines()
IsEmptyFile(lines) == lines = <<>>

\* `if not delimiter_indices` after Step 1
NoDelimitersFound(indices) == indices = {}

\* the elements of a sequence
Range(s) == {s[k] : k \in 1..Len(s)}

\* faulty variant of WritePart: a part after the first is written under the
\* number of the part before it, that is over the previous part's file
WritePartOverPrevious(w, part_number, lines) ==
    Append(w, [part_number |-> IF w = <<>> THEN part_number ELSE w[Len(w)].part_number,
               lines |-> lines])

\* write_part(filepath, part_number, lines, output_dir)
WritePart(w, part_number, lines) ==
    Append(w, [part_number |-> part_number, lines |-> lines])

\* ------------------------------------------------------------- main

\* main: "Determine Split Method and Value", the method
MainMethod(a, sm) ==
    IF a.opt = "lines" /\ a.n # 0 THEN "split_file_by_lines"
    ELSE IF a.opt = "bytes" /\ a.n # 0 THEN "split_file_by_bytes"
    ELSE IF a.opt = "parts" /\ a.n # 0 THEN "split_file_into_parts"
    ELSE IF a.opt = "words" /\ a.n # 0 THEN "split_file_by_words"
    ELSE IF a.opt = "delimiter" /\ a.d # {} THEN "split_file_by_delimiter"
    ELSE IF sm = "lines" THEN "split_file_by_lines"
    ELSE IF sm = "bytes" THEN "split_file_by_bytes"
    ELSE IF sm = "parts" THEN "split_file_into_parts"
    ELSE IF sm = "words" THEN "split_file_by_words"
    ELSE IF sm = "delimiter" THEN "split_file_by_delimiter"
    ELSE "None"

\* main: "Determine Split Method and Value", the value.  In the fallback
\* branch `value = SPLIT_VALUE` runs after the if/elif chain, whatever
\* SPLIT_METHOD is.
MainValue(a, sv, dl) ==
    IF a.opt \in {"lines", "bytes", "parts", "words"} /\ a.n # 0 THEN IntValue(a.n)
    ELSE IF a.opt = "delimiter" /\ a.d # {} THEN ListValue(a.d)
    ELSE IntValue(sv)

\* an option of the command line is present and truthy, so main does not
\* take the "Fallback to config" branch
ArgsGiven(a) ==
    \/ a.opt \in {"lines", "bytes", "parts", "words"} /\ a.n # 0
    \/ a.opt = "delimiter" /\ a.d # {}

\* split_file_simple.main: the same chain without the delimiter branches
SimpleMainMethod(a, sm) ==
    IF a.opt = "lines" /\ a.n # 0 THEN "split_file_by_lines"
    ELSE IF a.opt = "bytes" /\ a.n # 0 THEN "split_file_by_bytes"
    ELSE IF a.opt = "parts" /\ a.n # 0 THEN "split_file_into_parts"
    ELSE IF a.opt = "words" /\ a.n # 0 THEN "split_file_by_words"
    ELSE IF sm = "lines" THEN "split_file_by_lines"
    ELSE IF sm = "bytes" THEN "split_file_by_bytes"
    ELSE IF sm = "parts" THEN "split_file_into_parts"
    ELSE IF sm = "words" THEN "split_file_by_words"
    ELSE "None"

\* The configuration is varied where the script reads it: SPLIT_METHOD and
\* SPLIT_VALUE only in main's fallback branch (elsewhere they keep a
\* "words" configuration with a positive value, as shipped), DELIMITER only
\* in split_file_delimiter.py (the other scripts have no such global).
\* The input is varied the same way: lines with words and delimiters for the
\* word and delimiter modes, longer inputs of plain lines with every byte
\* size for the lines, bytes and parts modes, a directory of files (some of
\* them undecodable) for the directory branch of split_file_simple.py.
Init ==
    /\ script \in Scripts
    /\ args \in CASE script = "split_file_delimiter" -> Args
                  [] script = "split_file_simple" -> {a \in Args : a.opt \in {"none", "words"}}
                  [] OTHER -> {NoArgs}
    /\ SPLIT_METHOD \in IF script # "debug_split" /\ ~ArgsGiven(args)
                         THEN IF script = "split_file_delimiter"
                              THEN ConfigMethods \cup SizeMethods
                              ELSE ConfigMethods
                         ELSE {"words"}
    /\ input_kind \in IF script = "split_file_simple" THEN {"file", "dir"} ELSE {"file"}
    /\ pending \in IF input_kind = "dir" THEN SeqsUpTo(DirFile, MaxFiles) ELSE {<<>>}
    /\ readable = TRUE
    /\ files_found = FALSE
    /\ all_lines \in CASE script = "debug_split" -> SeqsUpTo(VisibleDelimiterLine, MaxLen)
                       [] input_kind = "dir" -> {<<>>}
                       [] /\ script = "split_file_delimiter"
                          /\ MainMethod(args, SPLIT_METHOD) \in
                                {"split_file_by_lines", "split_file_by_bytes",
                                 "split_file_into_parts"}
                          -> SeqsUpTo(PlainLine, MaxPlainLen)
                       [] OTHER -> SeqsUpTo(Line, MaxLen)
    /\ SPLIT_VALUE \in IF script # "debug_split" /\ ~ArgsGiven(args)
                        THEN ConfigValues ELSE ConfigValues \ {0}
    /\ DELIMITER \in IF script = "split_file_delimiter"
                      THEN SUBSET DelimiterStrings ELSE {{}}
    /\ method = "None"
    /\ value = IntValue(0)
    /\ pc = "main"
    /\ file_count = 0
    /\ current_chunk = <<>>
    /\ current_words = 0
    /\ i = 0
    /\ delimiter_indices = <<>>
    /\ split_points = <<>>
    /\ lines_buffer = <<>>
    /\ current_bytes = 0
    /\ written = <<>>
    /\ stdout = <<>>

\* main() up to the call of the split function; the input path is a file,
\* so process_path calls method_func(input_path, method_arg, output_dir)
Main ==
    /\ pc = "main"
    /\ script = "split_file_delimiter"
    /\ method' = MainMethod(args, SPLIT_METHOD)
    /\ value' = MainValue(args, SPLIT_VALUE, DELIMITER)
    /\ IF method' # "None" /\ Truthy(value')
       THEN /\ pc' = method'
            /\ stdout' = stdout
       ELSE /\ pc' = "error"
            /\ stdout' = Append(stdout, "Error: No split method specified")
    /\ UNCHANGED <<config, dir_state, size_locals, file_count, current_chunk, current_words, i,
                   delimiter_indices, split_points, written>>

\* ------------------------------------- split_file_by_words (delimiter)

\* use_delimiters = DELIMITER and len(DELIMITER) > 0
UseDelimiters(dl) == dl # {}

\* the nested line_contains_delimiter of split_file_by_words
WordsLineContainsDelimiter(line, dl) ==
    IF ~UseDelimiters(dl) THEN FALSE ELSE LineContainsDelimiter(line, dl)

\* find_prev_non_empty_line_is_delimiter(all_lines, idx)
FindPrevNonEmptyLineIsDelimiter(lines, idx, dl) ==
    LET prev_idx == SkipBlankBack(lines, idx - 1)
    IN  IF prev_idx < 0 THEN FALSE
        ELSE WordsLineContainsDelimiter(lines[prev_idx + 1], dl)

\* faulty variant of IsSplitPoint: every delimiter line past the first line
\* is a split point, whatever precedes it
IsSplitPointEveryDelimiter(lines, idx, dl) ==
    UseDelimiters(dl) /\ WordsLineContainsDelimiter(lines[idx + 1], dl) /\ idx > 0

\* is_split_point of the loop body, for the line at index idx
IsSplitPoint(lines, idx, dl) ==
    IF UseDelimiters(dl) /\ WordsLineContainsDelimiter(lines[idx + 1], dl) /\ idx > 0
    THEN ~FindPrevNonEmptyLineIsDelimiter(lines, idx, dl)
    ELSE FALSE

\* faulty variant of FlushAtSplitPoint: the word threshold is not tested
FlushAtEverySplitPoint(cw, words_per_file, is_split_point, chunk) ==
    is_split_point /\ chunk # <<>>

\* faulty variant of FlushAtSplitPoint: flushes one word late
FlushAtSplitPointLate(cw, words_per_file, is_split_point, chunk) ==
    cw > words_per_file /\ is_split_point /\ chunk # <<>>

\* faulty variant of FlushAtSplitPoint: the chunk is not tested for content
FlushAtSplitPointEmptyChunk(cw, words_per_file, is_split_point, chunk) ==
    cw >= words_per_file /\ is_split_point

\* if current_words >= words_per_file and is_split_point and current_chunk
FlushAtSplitPoint(cw, words_per_file, is_split_point, chunk) ==
    cw >= words_per_file /\ is_split_point /\ chunk # <<>>

\* faulty variant of GreedyFlush: tests the budget without the next line
GreedyFlushAfterAppend(cw, line_words, words_per_file, chunk) ==
    cw > words_per_file /\ chunk # <<>>

\* faulty variant of GreedyFlush: the chunk is not tested for content
GreedyFlushEmptyChunk(cw, line_words, words_per_file, chunk) ==
    cw + line_words > words_per_file

\* faulty variant of GreedyFlush: flushes as soon as the budget is reached
GreedyFlushAtBudget(cw, line_words, words_per_file, chunk) ==
    cw + line_words >= words_per_file /\ chunk # <<>>

\* if current_words + line_words > words_per_file and current_chunk
GreedyFlush(cw, line_words, words_per_file, chunk) ==
    cw + line_words > words_per_file /\ chunk # <<>>

\* entry of split_file_by_words: read the file, return on an empty one,
\* else set up the loop
WordsRead ==
    /\ pc = "split_file_by_words"
    /\ IF IsEmptyFile(all_lines)
       THEN /\ pc' = "returned"
            /\ UNCHANGED <<file_count, current_chunk, current_words, i>>
       ELSE /\ pc' = "words_loop"
            /\ file_count' = 1
            /\ current_chunk' = <<>>
            /\ current_words' = 0
            /\ i' = 0
    /\ UNCHANGED <<config, dir_state, size_locals, method, value, delimiter_indices, split_points,
                   written, stdout>>

\* one iteration of the while loop that takes the `continue` branch
WordsFlush ==
    /\ pc = "words_loop"
    /\ i < Len(all_lines)
    /\ FlushAtSplitPoint(current_words, value.n,
                         IsSplitPoint(all_lines, i, DELIMITER), current_chunk)
    /\ written' = WritePart(written, file_count, current_chunk)
    /\ stdout' = Append(stdout, "Created")
    /\ current_chunk' = <<>>
    /\ current_words' = 0
    /\ file_count' = file_count + 1
    /\ UNCHANGED <<config, dir_state, size_locals, method, value, pc, i, delimiter_indices, split_points>>

\* one iteration of the while loop that reaches the append
WordsAppend ==
    /\ pc = "words_loop"
    /\ i < Len(all_lines)
    /\ ~FlushAtSplitPoint(current_words, value.n,
                          IsSplitPoint(all_lines, i, DELIMITER), current_chunk)
    /\ LET line == all_lines[i + 1]
           line_words == line.words
           greedy == /\ ~UseDelimiters(DELIMITER)
                     /\ GreedyFlush(current_words, line_words, value.n, current_chunk)
       IN  /\ written' = IF greedy THEN WritePart(written, file_count, current_chunk)
                         ELSE written
           /\ stdout' = IF greedy THEN Append(stdout, "Created") ELSE stdout
           /\ file_count' = IF greedy THEN file_count + 1 ELSE file_count
           /\ current_chunk' = Append(IF greedy THEN <<>> ELSE current_chunk, line)
           /\ current_words' = (IF greedy THEN 0 ELSE current_words) + line_words
           /\ i' = i + 1
    /\ UNCHANGED <<config, dir_state, size_locals, method, value, pc, delimiter_indices, split_points>>

\* after the loop: "Write any remaining content"
WordsFinish ==
    /\ pc = "words_loop"
    /\ i >= Len(all_lines)
    /\ IF current_chunk # <<>>
       THEN /\ written' = WritePart(written, file_count, current_chunk)
            /\ stdout' = Append(stdout, "Created")
       ELSE UNCHANGED <<written, stdout>>
    /\ pc' = "returned"
    /\ UNCHANGED <<config, dir_state, size_locals, method, value, file_count, current_chunk,
                   current_words, i, delimiter_indices, split_points>>

\* -------------------------------------------- split_file_by_delimiter

\* entry of split_file_by_delimiter: normalise, read, return on an empty
\* file with a warning.  The delimiters argument is `value`.
DelimRead ==
    /\ pc = "split_file_by_delimiter"
    /\ IF IsEmptyFile(all_lines)
       THEN /\ stdout' = Append(stdout, "Warning: file is empty")
            /\ pc' = "returned"
       ELSE /\ stdout' = stdout
            /\ pc' = "delim_step1"
    /\ UNCHANGED <<config, dir_state, size_locals, method, value, file_count, current_chunk,
                   current_words, i, delimiter_indices, split_points, written>>

\* Step 1, and the return when no line holds a delimiter.  Iterating an
\* int (`for d in delimiters`) raises TypeError on the first line.
DelimStep1 ==
    /\ pc = "delim_step1"
    /\ IF value.int
       THEN /\ pc' = "raised"
            /\ UNCHANGED <<delimiter_indices, written, stdout>>
       ELSE LET found == DelimiterIndices(all_lines, value.d)
            IN  /\ delimiter_indices' = SortedSeq(found)
                /\ IF NoDelimitersFound(found)
                   THEN /\ written' = WritePart(written, 1, all_lines)
                        /\ stdout' = stdout \o <<"Created", "Warning: No delimiters found">>
                        /\ pc' = "returned"
                   ELSE /\ UNCHANGED <<written, stdout>>
                        /\ pc' = "delim_step2"
    /\ UNCHANGED <<config, dir_state, size_locals, method, value, file_count, current_chunk,
                   current_words, i, split_points>>

\* Step 2: the real split points
DelimStep2 ==
    /\ pc = "delim_step2"
    /\ split_points' = SplitPoints(all_lines, value.d, Range(delimiter_indices))
    /\ pc' = "delim_step3"
    /\ UNCHANGED <<config, dir_state, size_locals, method, value, file_count, current_chunk,
                   current_words, i, delimiter_indices, written, stdout>>

\* Step 3 up to the section loop: the header before the first split point
DelimHeader ==
    /\ pc = "delim_step3"
    /\ IF split_points # <<>>
       THEN LET first_split_idx == split_points[1]
            IN  IF first_split_idx > 0
                THEN /\ written' = WritePart(written, 0, Slice(all_lines, 0, first_split_idx))
                     /\ stdout' = Append(stdout, "Created")
                     /\ file_count' = 1
                     /\ pc' = "delim_sections"
                ELSE /\ UNCHANGED <<written, stdout>>
                     /\ file_count' = 0
                     /\ pc' = "delim_sections"
       ELSE IF all_lines # <<>>
            THEN /\ written' = WritePart(written, 1, all_lines)
                 /\ stdout' = Append(stdout, "Created")
                 /\ file_count' = 0
                 /\ pc' = "returned"
            ELSE /\ UNCHANGED <<written, stdout>>
                 /\ file_count' = 0
                 /\ pc' = "delim_sections"
    /\ i' = 0
    /\ UNCHANGED <<config, dir_state, size_locals, method, value, current_chunk, current_words,
                   delimiter_indices, split_points>>

\* faulty variant of SectionEnd: every section runs to the end of the file
SectionEndAtEof(points, k, total) == total

\* end_idx of the section that starts at split_points[k] (k 0-based)
SectionEnd(points, k, total) ==
    IF k + 1 < Len(points) THEN points[k + 2] ELSE total

\* one iteration of `for i, start_idx in enumerate(split_points)`
DelimSection ==
    /\ pc = "delim_sections"
    /\ i < Len(split_points)
    /\ LET start_idx == split_points[i + 1]
           end_idx == SectionEnd(split_points, i, Len(all_lines))
           section_lines == Slice(all_lines, start_idx, end_idx)
       IN  IF section_lines # <<>>
           THEN /\ file_count' = file_count + 1
                /\ written' = WritePart(written, file_count + 1, section_lines)
                /\ stdout' = Append(stdout, "Created")
           ELSE UNCHANGED <<file_count, written, stdout>>
    /\ i' = i + 1
    /\ UNCHANGED <<config, dir_state, size_locals, method, value, pc, current_chunk, current_words,
                   delimiter_indices, split_points>>

\* the section loop is exhausted: the function returns
DelimReturn ==
    /\ pc = "delim_sections"
    /\ i >= Len(split_points)
    /\ pc' = "returned"
    /\ UNCHANGED <<config, dir_state, size_locals, method, value, file_count, current_chunk,
                   current_words, i, delimiter_indices, split_points, written, stdout>>

\* ----------------------------------------------- split_file_by_lines

\* if len(lines) >= lines_per_file
LinesChunkFull(buffer, lines_per_file) == Len(buffer) >= lines_per_file

\* entry of split_file_by_lines: open the file, file_count = 1, lines = []
LinesOpen ==
    /\ pc = "split_file_by_lines"
    /\ pc' = "lines_loop"
    /\ file_count' = 1
    /\ lines_buffer' = <<>>
    /\ i' = 0
    /\ UNCHANGED <<config, dir_state, method, value, current_chunk, current_words,
                   delimiter_indices, split_points, current_bytes, written, stdout>>

\* one iteration of `for line in f`: append, then write a full chunk
LinesStep ==
    /\ pc = "lines_loop"
    /\ i < Len(all_lines)
    /\ LET appended == Append(lines_buffer, all_lines[i + 1])
       IN  IF LinesChunkFull(appended, value.n)
           THEN /\ written' = WritePart(written, file_count, appended)
                /\ stdout' = Append(stdout, "Created")
                /\ lines_buffer' = <<>>
                /\ file_count' = file_count + 1
           ELSE /\ lines_buffer' = appended
                /\ UNCHANGED <<written, stdout, file_count>>
    /\ i' = i + 1
    /\ UNCHANGED <<config, dir_state, method, value, pc, current_chunk, current_words,
                   delimiter_indices, split_points, current_bytes>>

\* after the loop: if lines: write_part(...)
LinesFinish ==
    /\ pc = "lines_loop"
    /\ i >= Len(all_lines)
    /\ IF lines_buffer # <<>>
       THEN /\ written' = WritePart(written, file_count, lines_buffer)
            /\ stdout' = Append(stdout, "Created")
       ELSE UNCHANGED <<written, stdout>>
    /\ pc' = "returned"
    /\ UNCHANGED <<config, dir_state, size_locals, method, value, file_count,
                   current_chunk, current_words, i, delimiter_indices, split_points>>

\* ----------------------------------------------- split_file_by_bytes

\* if current_bytes + line_bytes > bytes_per_file and lines
BytesFlush(cb, line_bytes, bytes_per_file, buffer) ==
    cb + line_bytes > bytes_per_file /\ buffer # <<>>

\* entry of split_file_by_bytes
BytesOpen ==
    /\ pc = "split_file_by_bytes"
    /\ pc' = "bytes_loop"
    /\ file_count' = 1
    /\ lines_buffer' = <<>>
    /\ current_bytes' = 0
    /\ i' = 0
    /\ UNCHANGED <<config, dir_state, method, value, current_chunk, current_words,
                   delimiter_indices, split_points, written, stdout>>

\* one iteration of `for line in f`: flush when the line does not fit, then
\* append it
BytesStep ==
    /\ pc = "bytes_loop"
    /\ i < Len(all_lines)
    /\ LET line == all_lines[i + 1]
           line_bytes == line.bytes
       IN  IF BytesFlush(current_bytes, line_bytes, value.n, lines_buffer)
           THEN /\ written' = WritePart(written, file_count, lines_buffer)
                /\ stdout' = Append(stdout, "Created")
                /\ lines_buffer' = <<line>>
                /\ current_bytes' = line_bytes
                /\ file_count' = file_count + 1
           ELSE /\ lines_buffer' = Append(lines_buffer, line)
                /\ current_bytes' = current_bytes + line_bytes
                /\ UNCHANGED <<written, stdout, file_count>>
    /\ i' = i + 1
    /\ UNCHANGED <<config, dir_state, method, value, pc, current_chunk, current_words,
                   delimiter_indices, split_points>>

\* after the loop: if lines: write_part(...)
BytesFinish ==
    /\ pc = "bytes_loop"
    /\ i >= Len(all_lines)
    /\ IF lines_buffer # <<>>
       THEN /\ written' = WritePart(written, file_count, lines_buffer)
            /\ stdout' = Append(stdout, "Created")
       ELSE UNCHANGED <<written, stdout>>
    /\ pc' = "returned"
    /\ UNCHANGED <<config, dir_state, size_locals, method, value, file_count,
                   current_chunk, current_words, i, delimiter_indices, split_points>>

\* --------------------------------------------- split_file_into_parts

\* Python's a // b, which rounds towards minus infinity for either sign of b
FloorDiv(a, b) == IF b > 0 THEN a \div b ELSE (0 - a) \div (0 - b)

\* lines_per_part = (total_lines + num_parts - 1) // num_parts
LinesPerPart(total_lines, num_parts) ==
    FloorDiv(total_lines + num_parts - 1, num_parts)

\* part_lines = lines[start:end] of iteration i
PartLines(lines, idx, lines_per_part) ==
    Slice(lines, idx * lines_per_part, idx * lines_per_part + lines_per_part)

\* entry of split_file_into_parts: read the file; the loop starts at i = 0
PartsRead ==
    /\ pc = "split_file_into_parts"
    /\ pc' = "parts_loop"
    /\ i' = 0
    /\ UNCHANGED <<config, dir_state, size_locals, method, value, file_count,
                   current_chunk, current_words, delimiter_indices, split_points,
                   written, stdout>>

\* one iteration of `for i in range(num_parts)`
PartsStep ==
    /\ pc = "parts_loop"
    /\ i < value.n
    /\ LET part_lines == PartLines(all_lines, i, LinesPerPart(Len(all_lines), value.n))
       IN  IF part_lines # <<>>
           THEN /\ written' = WritePart(written, i + 1, part_lines)
                /\ stdout' = Append(stdout, "Created")
           ELSE UNCHANGED <<written, stdout>>
    /\ i' = i + 1
    /\ UNCHANGED <<config, dir_state, size_locals, method, value, pc, file_count,
                   current_chunk, current_words, delimiter_indices, split_points>>

\* range(num_parts) is exhausted: the function returns
PartsReturn ==
    /\ pc = "parts_loop"
    /\ i >= value.n
    /\ pc' = "returned"
    /\ UNCHANGED <<config, dir_state, size_locals, method, value, file_count,
                   current_chunk, current_words, i, delimiter_indices, split_points,
                   written, stdout>>

\* ------------------------------------------------ split_file_simple.py

\* split_file_simple.main() up to the call of the split function (the input
\* path is a file) or up to the directory loop of process_path
SimpleMain ==
    /\ pc = "main"
    /\ script = "split_file_simple"
    /\ method' = SimpleMainMethod(args, SPLIT_METHOD)
    /\ value' = MainValue(args, SPLIT_VALUE, {})
    /\ IF method' # "None" /\ Truthy(value')
       THEN /\ pc' = IF input_kind = "dir" THEN "simple_dir_loop" ELSE "simple_words_loop"
            /\ file_count' = IF input_kind = "dir" THEN file_count ELSE 1
            /\ stdout' = stdout
       ELSE /\ pc' = "error"
            /\ file_count' = file_count
            /\ stdout' = Append(stdout, "Error: No split method specified")
    /\ UNCHANGED <<config, dir_state, size_locals, current_chunk, current_words, i,
                   delimiter_indices, split_points, written>>

\* split_file_simple: if current_words + line_words > words_per_file and current_chunk
SimpleGreedyFlush(cw, line_words, words_per_file, chunk) ==
    cw + line_words > words_per_file /\ chunk # <<>>

\* one iteration of `for line in f` of split_file_simple.split_file_by_words
SimpleWordsLine ==
    /\ pc = "simple_words_loop"
    /\ readable
    /\ i < Len(all_lines)
    /\ LET line == all_lines[i + 1]
           line_words == line.words
           flush == SimpleGreedyFlush(current_words, line_words, value.n, current_chunk)
       IN  /\ written' = IF flush THEN WritePart(written, file_count, current_chunk)
                         ELSE written
           /\ stdout' = IF flush THEN Append(stdout, "Created") ELSE stdout
           /\ file_count' = IF flush THEN file_count + 1 ELSE file_count
           /\ current_chunk' = Append(IF flush THEN <<>> ELSE current_chunk, line)
           /\ current_words' = (IF flush THEN 0 ELSE current_words) + line_words
           /\ i' = i + 1
    /\ UNCHANGED <<config, dir_state, size_locals, method, value, pc, delimiter_indices, split_points>>

\* after the loop: "Write any remaining content"
SimpleWordsFinish ==
    /\ pc = "simple_words_loop"
    /\ readable
    /\ i >= Len(all_lines)
    /\ IF current_chunk # <<>>
       THEN /\ written' = WritePart(written, file_count, current_chunk)
            /\ stdout' = Append(stdout, "Created")
       ELSE UNCHANGED <<written, stdout>>
    /\ pc' = IF input_kind = "dir" THEN "simple_dir_loop" ELSE "returned"
    /\ UNCHANGED <<config, dir_state, size_locals, method, value, file_count, current_chunk,
                   current_words, i, delimiter_indices, split_points>>

\* split_file_simple.split_file_by_words as a function of its input: the
\* write_part calls it makes on the lines from index idx on, given the
\* locals file_count, current_chunk, current_words and the calls made so far
RECURSIVE SimpleWordsRun(_, _, _, _, _, _, _)
SimpleWordsRun(lines, words_per_file, idx, fc, chunk, cw, w) ==
    IF idx >= Len(lines)
    THEN IF chunk # <<>> THEN WritePart(w, fc, chunk) ELSE w
    ELSE LET line == lines[idx + 1]
             line_words == line.words
             flush == SimpleGreedyFlush(cw, line_words, words_per_file, chunk)
         IN  SimpleWordsRun(lines, words_per_file, idx + 1,
                            IF flush THEN fc + 1 ELSE fc,
                            Append(IF flush THEN <<>> ELSE chunk, line),
                            (IF flush THEN 0 ELSE cw) + line_words,
                            IF flush THEN WritePart(w, fc, chunk) ELSE w)

\* the whole call: file_count = 1, current_chunk = [], current_words = 0
SimpleSplitFileByWords(lines, words_per_file) ==
    SimpleWordsRun(lines, words_per_file, 0, 1, <<>>, 0, <<>>)

\* `for line in f` on a file that is not valid UTF-8: the read raises
\* UnicodeDecodeError, which neither split_file_by_words nor process_path nor
\* main catches
SimpleWordsRaise ==
    /\ pc = "simple_words_loop"
    /\ ~readable
    /\ pc' = "raised"
    /\ UNCHANGED <<config, dir_state, size_locals, method, value, file_count,
                   current_chunk, current_words, i, delimiter_indices, split_points,
                   written, stdout>>

\* process_path, directory branch: the next file of os.listdir is handed to
\* the split function, which starts with file_count = 1 and an empty chunk
SimpleDirNext ==
    /\ pc = "simple_dir_loop"
    /\ pending # <<>>
    /\ files_found' = TRUE
    /\ stdout' = Append(stdout, "Processing")
    /\ all_lines' = Head(pending).lines
    /\ readable' = Head(pending).readable
    /\ pending' = Tail(pending)
    /\ pc' = "simple_words_loop"
    /\ file_count' = 1
    /\ current_chunk' = <<>>
    /\ current_words' = 0
    /\ i' = 0
    /\ UNCHANGED <<script, input_kind, args, SPLIT_METHOD, SPLIT_VALUE, DELIMITER,
                   size_locals, method, value, delimiter_indices, split_points, written>>

\* process_path, directory branch: os.listdir is exhausted
SimpleDirDone ==
    /\ pc = "simple_dir_loop"
    /\ pending = <<>>
    /\ stdout' = IF ~files_found THEN Append(stdout, "No files found in directory")
                 ELSE stdout
    /\ pc' = "returned"
    /\ UNCHANGED <<config, dir_state, size_locals, method, value, file_count,
                   current_chunk, current_words, i, delimiter_indices, split_points,
                   written>>

\* ------------------------------------------------------ debug_split.py

\* Step 1 of debug_split.py
DebugDelimiterIndices(lines, delimiters) ==
    {idx \in 0..(Len(lines) - 1) : lines[idx + 1].has \cap delimiters # {}}

\* Step 2 of debug_split.py, the test made for one delimiter index
DebugIsSplitPoint(lines, delimiters, idx) ==
    IF idx = 0 THEN TRUE
    ELSE LET prev_idx == SkipBlankBack(lines, idx - 1)
         IN  IF prev_idx < 0 THEN TRUE
             ELSE ~(lines[prev_idx + 1].has \cap delimiters # {})

\* the whole script: its module-level `delimiters` list is the argument,
\* both lists are computed and printed
DebugSplit ==
    /\ pc = "main"
    /\ script = "debug_split"
    /\ value' = ListValue(DelimiterStrings)
    /\ delimiter_indices' = SortedSeq(DebugDelimiterIndices(all_lines, value'.d))
    /\ split_points' = SortedSeq({idx \in Range(delimiter_indices') :
                                     DebugIsSplitPoint(all_lines, value'.d, idx)})
    /\ stdout' = stdout \o <<"Total lines", "Total delimiters found",
                              "Total split points", "Section ranges">>
    /\ pc' = "returned"
    /\ UNCHANGED <<config, dir_state, size_locals, method, file_count, current_chunk, current_words,
                   i, written>>

\* the exit status of the finished process: main() is called at module level
\* and never calls sys.exit, so the interpreter exits with 0 when main
\* returns and with 1 when an exception propagates out of it; -1 stands for
\* a process that is still running
ExitStatus ==
    CASE pc = "raised" -> 1
      [] pc \in {"returned", "error"} -> 0
      [] OTHER -> -1

Next ==
    \/ Main
    \/ SimpleMain
    \/ SimpleWordsLine
    \/ SimpleWordsFinish
    \/ SimpleWordsRaise
    \/ SimpleDirNext
    \/ SimpleDirDone
    \/ DebugSplit
    \/ WordsRead
    \/ WordsFlush
    \/ WordsAppend
    \/ WordsFinish
    \/ DelimRead
    \/ DelimStep1
    \/ DelimStep2
    \/ DelimHeader
    \/ DelimSection
    \/ DelimReturn
    \/ LinesOpen
    \/ LinesStep
    \/ LinesFinish
    \/ BytesOpen
    \/ BytesStep
    \/ BytesFinish
    \/ PartsRead
    \/ PartsStep
    \/ PartsReturn

Spec == Init /\ [][Next]_vars

\* =================================================================
\* Properties
\* =================================================================

\* total of the word counts of a list of lines
RECURSIVE WordsOf(_)
WordsOf(chunk) ==
    IF chunk = <<>> THEN 0 ELSE chunk[1].words + WordsOf(Tail(chunk))

\* the line lists of the first k write_part calls, concatenated
RECURSIVE Flatten(_, _)
Flatten(w, k) ==
    IF k = 0 THEN <<>> ELSE Flatten(w, k - 1) \o w[k].lines

\* input position (0-based) of the first line of the k-th written chunk,
\* and the position just past its last line
StartOf(w, k) == Len(Flatten(w, k - 1))
EndOf(w, k) == Len(Flatten(w, k))

\* the lines at the positions lo .. hi-1
LinesIn(lines, lo, hi) == [k \in 1..(hi - lo) |-> lines[lo + k]]

\* position p holds a line containing a delimiter / a blank line
DelimAt(lines, D, p) == lines[p + 1].has \cap D # {}
BlankAt(lines, p) == lines[p + 1].words = 0

\* Boundary: p contains a delimiter and the nearest non-blank line before
\* p, if there is one, contains none
Boundary(lines, D, p) ==
    /\ p \in 0..(Len(lines) - 1)
    /\ DelimAt(lines, D, p)
    /\ \A q \in 0..(p - 1) :
          (~BlankAt(lines, q) /\ \A r \in (q + 1)..(p - 1) : BlankAt(lines, r))
              => ~DelimAt(lines, D, q)

BoundarySet(lines, D) == {p \in 0..(Len(lines) - 1) : Boundary(lines, D, p)}

\* end of the section that starts at Boundary b: the next Boundary, or
\* the end of the input
NextBoundary(lines, D, b) ==
    LET later == {c \in BoundarySet(lines, D) : c > b}
    IN  IF later = {} THEN Len(lines)
        ELSE CHOOSE c \in later : \A e \in later : c <= e

InDelimiterScript == script = "split_file_delimiter"

\* main of split_file_delimiter.py has called the split function it chose
Called == InDelimiterScript /\ pc \notin {"main", "error"}

\* split_file_by_delimiter has been called with a list of delimiter strings
ByDelimiter == Called /\ method = "split_file_by_delimiter" /\ ~value.int

\* split_file_by_words of split_file_delimiter.py has been called
ByWords == Called /\ method = "split_file_by_words"

\* ------------------------------------------------------------------ C1
\* C1: when split_file_by_delimiter (called with a delimiter list) or
\* split_file_by_words (W > 0, with or without DELIMITER) has returned, the
\* line lists passed to write_part, concatenated in emission order, are
\* the input line sequence; while split_file_by_words runs, the written
\* lists followed by the current chunk are the input read so far.
C1_Reconstructs ==
    /\ (pc = "returned" /\ (ByDelimiter \/ (ByWords /\ value.n > 0)))
           => Flatten(written, Len(written)) = all_lines
    /\ (pc = "words_loop" /\ ByWords /\ value.n > 0)
           => Flatten(written, Len(written)) \o current_chunk = LinesIn(all_lines, 0, i)

C1_Witness ==
    /\ pc = "returned" /\ ByWords /\ value.n > 0 /\ UseDelimiters(DELIMITER)
    /\ Len(written) >= 2
    /\ Len(all_lines) = MaxLen

\* ------------------------------------------------------------------ C2
\* Step 2 of split_file_by_delimiter or of debug_split.py has run (or the
\* function returned before it because no line holds a delimiter)
AfterStep2 ==
    \/ ByDelimiter /\ pc \in {"delim_step3", "delim_sections", "returned"}
    \/ script = "debug_split" /\ pc = "returned"

\* split_points is the ascending list of the Boundary positions
SplitPointsAreBoundaries ==
    split_points = SortedSeq(BoundarySet(all_lines, value.d))

\* p < q are delimiter lines with only blank lines between them
SameRun(lines, D, p, q) ==
    /\ p < q
    /\ DelimAt(lines, D, p)
    /\ DelimAt(lines, D, q)
    /\ \A r \in (p + 1)..(q - 1) : BlankAt(lines, r)

ExpectedSections(lines, b) ==
    LET lead == IF b[1] > 0 THEN <<LinesIn(lines, 0, b[1])>> ELSE <<>>
        rest == [k \in 1..Len(b) |->
                    LinesIn(lines, b[k], IF k < Len(b) THEN b[k + 1] ELSE Len(lines))]
    IN  lead \o rest

\* the line lists of the write_part calls, in emission order
WrittenLines == [k \in 1..Len(written) |-> written[k].lines]

\* C3: when split_file_by_delimiter has returned on an input with at
\* least one Boundary, the chunks written are exactly the leading chunk
\* [0, b_1) (if and only if b_1 > 0) followed by one chunk [b_k, b_{k+1})
\* per Boundary, the last one ending at the end of the input.
C3_SectionsAtBoundaries ==
    (ByDelimiter /\ pc = "returned" /\ BoundarySet(all_lines, value.d) # {})
        => WrittenLines = ExpectedSections(all_lines, SortedSeq(BoundarySet(all_lines, value.d)))

C3_Witness ==
    /\ ByDelimiter /\ pc = "returned"
    /\ Cardinality(BoundarySet(all_lines, value.d)) >= 2
    /\ 0 \notin BoundarySet(all_lines, value.d)
    /\ Len(written) = 3

\* ------------------------------------------------------------------ C4
\* split_file_by_words runs with a non-empty DELIMITER and W > 0
ByWordsWithDelimiters == ByWords /\ UseDelimiters(DELIMITER) /\ value.n > 0

\* C4: in split_file_by_words with delimiters and W > 0, every written
\* chunk, and the chunk being accumulated, starts at position 0 or at a
\* Boundary; and once the function has returned every section (from a
\* Boundary to the next Boundary or the end of input) lies inside one of
\* the written chunks.
C4_ChunkStarts ==
    ByWordsWithDelimiters =>
        /\ \A k \in 1..Len(written) :
              \/ StartOf(written, k) = 0
              \/ Boundary(all_lines, DELIMITER, StartOf(written, k))
        /\ pc = "words_loop" =>
              \/ i - Len(current_chunk) = 0
              \/ Boundary(all_lines, DELIMITER, i - Len(current_chunk))
        /\ pc = "returned" =>
              \A b \in BoundarySet(all_lines, DELIMITER) :
                  \E k \in 1..Len(written) :
                      /\ StartOf(written, k) <= b
                      /\ NextBoundary(all_lines, DELIMITER, b) <= EndOf(written, k)

\* a section with more than W words sits whole in one of several chunks
C4_Witness ==
    /\ ByWordsWithDelimiters /\ pc = "returned"
    /\ Len(written) >= 2
    /\ \E b \in BoundarySet(all_lines, DELIMITER) :
          /\ b > 0
          /\ WordsOf(LinesIn(all_lines, b, NextBoundary(all_lines, DELIMITER, b))) > value.n
          /\ NextBoundary(all_lines, DELIMITER, b) > b + 1

\* ------------------------------------------------------------------ C5
\* the Boundary positions inside the k-th written chunk past its first line
InnerBoundaries(k) ==
    {b \in BoundarySet(all_lines, DELIMITER) :
        StartOf(written, k) < b /\ b < EndOf(written, k)}

\* C5 as amended: in split_file_by_words with delimiters and W > 0, a
\* written chunk may exceed W with several sections in it; what holds is
\* that at every Boundary inside a chunk (past its first line) the chunk
\* held fewer than W words, so a chunk exceeds W only by the words of its
\* last section.
C5_OvershootByLastSection ==
    ByWordsWithDelimiters =>
        \A k \in 1..Len(written) :
            \A b \in InnerBoundaries(k) :
                WordsOf(LinesIn(all_lines, StartOf(written, k), b)) < value.n

\* a chunk above W that holds two sections, neither above W on its own
C5_Witness ==
    /\ ByWordsWithDelimiters /\ pc = "returned"
    /\ \E k \in 1..Len(written) :
          /\ WordsOf(written[k].lines) > value.n
          /\ \E b \in InnerBoundaries(k) :
                /\ WordsOf(LinesIn(all_lines, StartOf(written, k), b)) > 0
                /\ WordsOf(LinesIn(all_lines, b, EndOf(written, k))) <= value.n

\* C5 as stated: a written chunk with more than W words contains no
\* Boundary past its first line
C5_Original ==
    ByWordsWithDelimiters =>
        \A k \in 1..Len(written) :
            WordsOf(written[k].lines) > value.n => InnerBoundaries(k) = {}

\* ------------------------------------------------------------------ C6
\* a step of the word loop that writes a chunk and stays in the loop: the
\* chunk is sealed before the end of input
SealsBeforeEnd ==
    pc = "words_loop" /\ pc' = "words_loop" /\ Len(written') = Len(written) + 1

\* C6: in split_file_by_words with delimiters and W > 0, a step that seals
\* a chunk before the end of input is taken at a line that is a Boundary
\* and with current_words >= W, and the chunk it writes has at least W
\* words; hence every written chunk except the last has at least W words.
C6_SealOnlyAtBoundaryOverBudget ==
    /\ [][(ByWordsWithDelimiters /\ SealsBeforeEnd) =>
            /\ Boundary(all_lines, DELIMITER, i)
            /\ current_words >= value.n
            /\ WordsOf(written'[Len(written')].lines) >= value.n]_vars
    /\ [](ByWordsWithDelimiters =>
            \A k \in 1..Len(written) :
                (k < Len(written) \/ pc = "words_loop")
                    => WordsOf(written[k].lines) >= value.n)

C6_Witness ==
    /\ ByWordsWithDelimiters /\ pc = "words_loop"
    /\ Len(written) = 1
    /\ current_chunk = <<>>
    /\ Boundary(all_lines, DELIMITER, i)
    /\ WordsOf(written[1].lines) > value.n

\* ------------------------------------------------------------------ C7
\* a greedy word split runs with W > 0: split_file_by_words of
\* split_file_delimiter.py with DELIMITER empty, or of split_file_simple.py
GreedyByWords ==
    /\ value.n > 0
    /\ \/ ByWords /\ ~UseDelimiters(DELIMITER) /\ pc \in {"words_loop", "returned"}
       \/ script = "split_file_simple" /\ pc \in {"simple_words_loop", "returned"}

\* C7 as amended: with no delimiters and W > 0, after every append the
\* current chunk has at most W words unless it consists of a single line;
\* so a written chunk has more than W words only if it is one line that
\* alone has more than W words.
C7_WithinBudgetOrSingleLine ==
    GreedyByWords =>
        /\ current_words = WordsOf(current_chunk)
        /\ current_words <= value.n \/ Len(current_chunk) = 1
        /\ \A k \in 1..Len(written) :
              WordsOf(written[k].lines) <= value.n \/ Len(written[k].lines) = 1

C7_Witness ==
    /\ GreedyByWords /\ pc = "returned"
    /\ Len(written) >= 2
    /\ \E k \in 1..Len(written) : WordsOf(written[k].lines) > value.n
    /\ \E k \in 1..Len(written) : Len(written[k].lines) >= 2

\* C7 as stated: after every append the current chunk has at most W
\* words, and no written chunk has more than W words
C7_Original ==
    GreedyByWords =>
        /\ current_words <= value.n
        /\ \A k \in 1..Len(written) : WordsOf(written[k].lines) <= value.n

\* ------------------------------------------------------------------ C8
\* split_file_by_delimiter runs on a non-empty input none of whose lines
\* contains a delimiter
NoDelimiterInInput ==
    /\ ByDelimiter
    /\ all_lines # <<>>
    /\ \A p \in 0..(Len(all_lines) - 1) : ~DelimAt(all_lines, value.d, p)

\* C8: on a non-empty input without any delimiter line
\* split_file_by_delimiter raises nothing, goes from Step 1 straight to
\* its return, and has then written exactly one chunk, the whole input,
\* and printed the "No delimiters found" warning.
C8_NoDelimiterSingleChunk ==
    NoDelimiterInInput =>
        /\ pc \in {"split_file_by_delimiter", "delim_step1", "returned"}
        /\ pc = "returned" =>
              /\ WrittenLines = <<all_lines>>
              /\ "Warning: No delimiters found" \in Range(stdout)
              /\ "Error: No split method specified" \notin Range(stdout)
        /\ pc # "returned" => written = <<>>

C8_Witness ==
    /\ NoDelimiterInInput /\ pc = "returned"
    /\ Len(all_lines) >= 2
    /\ Len(written) = 1

\* ------------------------------------------------------------------ C9
\* C9: on an empty input split_file_by_delimiter and split_file_by_words
\* write no part and return without raising: from their entry the only
\* step is the return, with nothing written.
C9_EmptyInputNoChunk ==
    (Called /\ all_lines = <<>>
        /\ method \in {"split_file_by_words", "split_file_by_delimiter"})
        => /\ written = <<>>
           /\ pc \in {method, "returned"}

C9_Witness ==
    /\ Called /\ all_lines = <<>>
    /\ method = "split_file_by_delimiter"
    /\ pc = "returned"
    /\ "Warning: file is empty" \in Range(stdout)

\* ----------------------------------------------------------------- C10
\* C10 as stated: a --words value of 0 ends in main's error without any
\* split, and split_file_by_words only ever runs with a positive budget
C10_PositiveBudgetOrError ==
    InDelimiterScript =>
        /\ (args.opt = "words" /\ args.n = 0 /\ pc # "main")
              => (pc = "error" /\ written = <<>>)
        /\ ByWords => value.n > 0

\* ----------------------------------------------------------------- C11
\* the part numbers of the write_part calls made so far, in emission order
PartNumbers == [k \in 1..Len(written) |-> written[k].part_number]

\* delimiter-only mode on an input whose first Boundary is not the first
\* line: the lines before it are written first, as a leading chunk
HasLeadingChunk ==
    /\ ByDelimiter
    /\ BoundarySet(all_lines, value.d) # {}
    /\ 0 \notin BoundarySet(all_lines, value.d)

\* C11: in every split mode of split_file_delimiter.py the part numbers
\* passed to write_part are strictly increasing in emission order, and the
\* first one is 1, or 0 when delimiter-only mode writes a leading chunk; so
\* no two parts of one input get the same file name.
C11_PartNumbersIncrease ==
    InDelimiterScript =>
        /\ \A k \in 1..(Len(written) - 1) : PartNumbers[k] < PartNumbers[k + 1]
        /\ written # <<>> => PartNumbers[1] = IF HasLeadingChunk THEN 0 ELSE 1
        /\ \A k, l \in 1..Len(written) : k # l => PartNumbers[k] # PartNumbers[l]

\* delimiter-only mode has returned after writing a leading chunk, as part
\* 0, and two sections
C11_Witness ==
    /\ InDelimiterScript
    /\ pc = "returned"
    /\ Len(written) = 3
    /\ HasLeadingChunk
    /\ PartNumbers[1] = 0

\* ----------------------------------------------------------------- C12
\* split_file_simple.py runs on a directory
SimpleDirectoryRun == script = "split_file_simple" /\ input_kind = "dir"

\* C12 as stated: in directory mode of split_file_simple.py a file on which
\* the split function raises does not stop the run; when the process has
\* stopped, every file of the directory has been handed to the split
\* function.
C12_RemainingFilesProcessed ==
    (SimpleDirectoryRun /\ pc \in {"returned", "raised"}) => pending = <<>>

\* ----------------------------------------------------------------- C13
\* C13 as stated: when main resolves no split method or no value, it prints
\* the error message and the process exits with a non-zero status
C13_ErrorExitsNonZero ==
    (script \in {"split_file_delimiter", "split_file_simple"} /\ pc = "error")
        => /\ "Error: No split method specified" \in Range(stdout)
           /\ ExitStatus # 0

\* ----------------------------------------------------------------- C14
\* C14 as stated: split_file_into_parts called with num_parts >= 1 on an
\* input of at least num_parts lines has written, when it returns, exactly
\* num_parts parts, numbered 1..num_parts
C14_ExactlyNumParts ==
    (Called /\ method = "split_file_into_parts" /\ pc = "returned"
        /\ value.n >= 1 /\ Len(all_lines) >= value.n)
        => PartNumbers = [k \in 1..value.n |-> k]

\* ----------------------------------------------------------------- C15
\* number of Boundaries at or before position p: k for a chunk that starts
\* at the k-th Boundary, 0 for a chunk that starts before the first one
BoundaryIndex(lines, D, p) == Cardinality({c \in BoundarySet(lines, D) : c <= p})

\* C15 as stated: in delimiter-only mode the chunk that starts at the k-th
\* Boundary is written as part k and a leading chunk as part 0, so the part
\* numbers are consecutive
C15_PartNumberIsBoundaryIndex ==
    (ByDelimiter /\ BoundarySet(all_lines, value.d) # {})
        => /\ \A k \in 1..Len(written) :
                 PartNumbers[k] = BoundaryIndex(all_lines, value.d, StartOf(written, k))
           /\ \A k \in 1..(Len(written) - 1) : PartNumbers[k + 1] = PartNumbers[k] + 1

\* ----------------------------------------------------------------- C16
\* main of split_file_delimiter.py has taken its "Fallback to config" branch
\* with SPLIT_METHOD == "delimiter"
DelimiterFallback ==
    /\ InDelimiterScript
    /\ ~ArgsGiven(args)
    /\ SPLIT_METHOD = "delimiter"
    /\ pc # "main"

\* C16 as stated: with no mode flag and SPLIT_METHOD == "delimiter", main
\* passes the DELIMITER list (not SPLIT_VALUE) to split_file_by_delimiter,
\* which it calls whenever that list is not empty
C16_FallbackPassesDelimiterList ==
    DelimiterFallback
        => /\ method = "split_file_by_delimiter"
           /\ value = ListValue(DELIMITER)
           /\ DELIMITER # {} => Called

\* ----------------------------------------------------------------- C17
\* split_file_by_delimiter has finished Step 2 on an input with at least
\* one delimiter line
Step2DoneWithDelimiterLine ==
    /\ ByDelimiter
    /\ pc \in {"delim_step3", "delim_sections", "returned"}
    /\ \E p \in 0..(Len(all_lines) - 1) : DelimAt(all_lines, value.d, p)

\* C17: in split_file_by_delimiter, when at least one line contains a
\* delimiter, split_points is not empty after Step 2 and its first element
\* is the smallest delimiter position; so Step 3 is never entered with
\* split_points empty, and its branch "no split points but the file has
\* content" is never taken.
C17_FirstDelimiterIsSplitPoint ==
    /\ Step2DoneWithDelimiterLine
          => /\ split_points # <<>>
             /\ DelimAt(all_lines, value.d, split_points[1])
             /\ \A p \in 0..(split_points[1] - 1) : ~DelimAt(all_lines, value.d, p)
    /\ (InDelimiterScript /\ pc = "delim_step3") => split_points # <<>>

\* Step 3 is entered on an input whose first delimiter line comes after a
\* blank line and is followed by a second delimiter line, which is not a
\* split point
C17_Witness ==
    /\ Step2DoneWithDelimiterLine
    /\ pc = "delim_step3"
    /\ Len(split_points) = 1
    /\ split_points[1] > 0
    /\ BlankAt(all_lines, split_points[1] - 1)
    /\ Len(delimiter_indices) > 1

\* ----------------------------------------------------------------- C18
\* the while loop of split_file_by_words is at an iteration that will take
\* the flush-and-continue branch
FlushPending ==
    /\ pc = "words_loop"
    /\ i < Len(all_lines)
    /\ FlushAtSplitPoint(current_words, value.n,
                         IsSplitPoint(all_lines, i, DELIMITER), current_chunk)

\* twice the number of lines still to read, plus one when the next
\* iteration is a flush: a natural number
LoopMeasure == 2 * (Len(all_lines) - i) + (IF FlushPending THEN 1 ELSE 0)

\* C18: the while loop of split_file_by_words terminates for every input
\* and every word budget, W <= 0 included: every iteration either advances
\* the index by one or is a flush that leaves the index alone and is not
\* followed by another flush, so LoopMeasure, which is never negative,
\* decreases at every iteration; and with the index at the end of the
\* input the loop is left.
C18_LoopTerminates ==
    [][(ByWords /\ pc = "words_loop")
          => /\ LoopMeasure >= 0
             /\ pc' = "words_loop"
                   => /\ i < Len(all_lines)
                      /\ LoopMeasure' < LoopMeasure
                      /\ LoopMeasure' >= 0
                      /\ \/ i' = i + 1
                         \/ i' = i /\ written' # written /\ ~FlushPending'
             /\ pc' # "words_loop" => (i >= Len(all_lines) /\ pc' = "returned")]_vars

\* with a negative budget the loop has just flushed at a Boundary and is
\* at the same index with an empty chunk
C18_Witness ==
    /\ ByWords
    /\ value.n < 0
    /\ pc = "words_loop"
    /\ i < Len(all_lines)
    /\ IsSplitPoint(all_lines, i, DELIMITER)
    /\ current_chunk = <<>>
    /\ written # <<>>

\* ----------------------------------------------------------------- C19
\* C19: with DELIMITER empty, split_file_by_words of split_file_delimiter.py
\* makes exactly the write_part calls (part number, line list) that
\* split_file_by_words of split_file_simple.py makes on the same input and
\* budget.  Both scripts are compared with SimpleSplitFileByWords, the
\* function computed by the loop of split_file_simple.py: the first
\* conjunct checks that a run of split_file_simple.py on a file writes
\* exactly that, the second that split_file_delimiter.py does.
C19_SameChunksAsSimple ==
    /\ (script = "split_file_simple" /\ input_kind = "file" /\ pc = "returned")
          => written = SimpleSplitFileByWords(all_lines, value.n)
    /\ (ByWords /\ ~UseDelimiters(DELIMITER) /\ pc = "returned")
          => written = SimpleSplitFileByWords(all_lines, value.n)

\* split_file_delimiter.py, DELIMITER empty, has returned after writing two
\* parts of an input that holds a line with the text of a delimiter
C19_Witness ==
    /\ ByWords
    /\ ~UseDelimiters(DELIMITER)
    /\ pc = "returned"
    /\ Len(written) = 2
    /\ \E p \in 0..(Len(all_lines) - 1) : all_lines[p + 1].has # {}

\* ----------------------------------------------------------------- C20
\* C20: no split function of split_file_delimiter.py calls write_part with
\* an empty list of lines, in any mode (lines, bytes, parts, words with or
\* without delimiters, delimiter) and for any count or budget.
C20_NoEmptyPart ==
    InDelimiterScript => \A k \in 1..Len(written) : written[k].lines # <<>>

\* split_file_by_words without delimiters has met a first line that alone
\* exceeds the budget: the chunk was empty, nothing was written, and the
\* line was appended
C20_Witness ==
    /\ ByWords
    /\ ~UseDelimiters(DELIMITER)
    /\ value.n > 0
    /\ pc = "words_loop"
    /\ i = 1
    /\ all_lines[1].words > value.n
    /\ written = <<>>
    /\ current_chunk = <<all_lines[1]>>
====
